---- MODULE Spec2Model ----
(***************************************************************************)
(* Truncated power-series recurrence engine of sympy_crosscheck_all.py:    *)
(* series_first_order, series_nth_order, series_system_2x2, the exact-     *)
(* solve fast path series_from_exact, and the runner that tries the fast   *)
(* path first and falls back to the recurrence.                            *)
(*                                                                         *)
(* Exact numbers are rationals <<num, den>> in lowest terms with den > 0.  *)
(* A polynomial in one variable is the sequence of its coefficients,       *)
(* entry i+1 holding the coefficient of degree i, without trailing zeros   *)
(* where it stands for a SymPy expression.                                 *)
(***************************************************************************)
EXTENDS Integers, Sequences, FiniteSets, TLC

\* ------------------------------------------------------------------------
\* Bounds of the model
\* ------------------------------------------------------------------------

\* Largest truncation order of a request (orders run from -1 to MaxOrder).
MaxOrder == 4

\* Largest ODE order m of an m-th order request.
MaxM == 4

\* Initial values are integers 0..MaxVal.
MaxVal == 1

\* ------------------------------------------------------------------------
\* Exact rational arithmetic (SymPy's Rational)
\* ------------------------------------------------------------------------

Abs(i) == IF i < 0 THEN -i ELSE i

RECURSIVE GCD(_, _)
GCD(i, j) == IF j = 0 THEN i ELSE GCD(j, i % j)

Norm(num, den) ==
    LET g == GCD(Abs(num), den)
    IN  <<num \div g, den \div g>>

RZero == <<0, 1>>

ROne == <<1, 1>>

RInt(i) == <<i, 1>>

RAdd(p, q) == Norm(p[1] * q[2] + q[1] * p[2], p[2] * q[2])

RMul(p, q) == Norm(p[1] * q[1], p[2] * q[2])

\* p / k for an integer k > 0.
RDivInt(p, k) == Norm(p[1], p[2] * k)

RECURSIVE Factorial(_)
Factorial(k) == IF k <= 0 THEN 1 ELSE k * Factorial(k - 1)

\* ------------------------------------------------------------------------
\* Polynomials in one variable
\* ------------------------------------------------------------------------

\* A sequence given by its entries, as a tuple.
Tup(f) == f \o <<>>

\* expr.coeff(t, k): the coefficient of degree k, 0 when the term is absent.
Coeff(p, k) == IF k >= 0 /\ k < Len(p) THEN p[k + 1] ELSE RZero

RECURSIVE Strip(_)
Strip(p) ==
    IF Len(p) = 0 THEN p
    ELSE IF p[Len(p)] = RZero THEN Strip(SubSeq(p, 1, Len(p) - 1))
    ELSE p

Max(i, j) == IF i > j THEN i ELSE j

PAdd(p, q) ==
    Strip(Tup([k \in 1..Max(Len(p), Len(q)) |-> RAdd(Coeff(p, k - 1), Coeff(q, k - 1))]))

PScale(c, p) == Strip(Tup([k \in 1..Len(p) |-> RMul(c, p[k])]))

RECURSIVE ConvSum(_, _, _, _)
ConvSum(p, q, k, i) ==
    IF i > k THEN RZero
    ELSE RAdd(RMul(Coeff(p, i), Coeff(q, k - i)), ConvSum(p, q, k, i + 1))

\* sp.expand of a product.
PMul(p, q) ==
    IF Len(p) = 0 \/ Len(q) = 0 THEN <<>>
    ELSE Strip(Tup([k \in 1..(Len(p) + Len(q) - 1) |-> ConvSum(p, q, k - 1, 0)]))

RECURSIVE PPow(_, _)
PPow(p, e) == IF e = 0 THEN <<ROne>> ELSE PMul(p, PPow(p, e - 1))

\* sp.diff(p, t).
PDiff1(p) ==
    IF Len(p) <= 1 THEN <<>>
    ELSE Strip(Tup([k \in 1..(Len(p) - 1) |-> RMul(RInt(k), p[k + 1])]))

\* sp.diff(p, t, j).
RECURSIVE PDiff(_, _)
PDiff(p, j) == IF j = 0 THEN p ELSE PDiff(PDiff1(p), j - 1)

\* sp.series(p, t, 0, k + 1).removeO(): the terms of degree <= k.
SeriesRemoveO(p, k) == Strip(SubSeq(p, 1, IF Len(p) < k + 1 THEN Len(p) ELSE k + 1))

\* poly.subs(t, x - c) expanded: sum of p_k (x - c)^k as a polynomial in x.
RECURSIVE Compose(_, _, _)
Compose(p, lin, k) ==
    IF k > Len(p) THEN <<>>
    ELSE PAdd(<<p[k]>>, PMul(lin, Compose(p, lin, k + 1)))

ShiftTo(p, c) == Strip(Compose(p, <<RInt(-c), ROne>>, 1))

\* The Taylor coefficients about c of a polynomial in x: p(c + t).
AboutPoint(p, c) == Strip(Compose(p, <<RInt(c), ROne>>, 1))

\* ------------------------------------------------------------------------
\* Right-hand sides: sums of monomials c * x^px * u1^e1 * u2^e2 * u3^e3.
\* For a scalar ODE u1, u2, u3 are y(x), y'(x), y''(x); for a 2x2 system u1
\* and u2 are f(x) and g(x).
\* ------------------------------------------------------------------------

Term(c, px, e1, e2, e3) == [c |-> c, px |-> px, pu |-> <<e1, e2, e3>>]

\* One monomial after subs({x: x0 + t, u_i: U[i]}) and sp.expand.
SubsTerm(term, x0, U) ==
    PScale(RInt(term.c),
           PMul(PPow(<<RInt(x0), ROne>>, term.px),
                PMul(PPow(U[1], term.pu[1]),
                     PMul(PPow(U[2], term.pu[2]), PPow(U[3], term.pu[3])))))

\* sp.expand(rhs.subs(subs_map)) as a polynomial in t.
RECURSIVE SubsExpand(_, _, _)
SubsExpand(rhs, x0, U) ==
    IF Len(rhs) = 0 THEN <<>>
    ELSE PAdd(SubsTerm(Head(rhs), x0, U), SubsExpand(Tail(rhs), x0, U))

\* The highest derivative slot a right-hand side mentions (0 when none).
RECURSIVE TopSlot(_)
TopSlot(rhs) ==
    IF Len(rhs) = 0 THEN 0
    ELSE LET h == Head(rhs).pu
             s == IF h[3] > 0 THEN 3 ELSE IF h[2] > 0 THEN 2 ELSE IF h[1] > 0 THEN 1 ELSE 0
         IN  Max(s, TopSlot(Tail(rhs)))

\* ------------------------------------------------------------------------
\* Python lists
\* ------------------------------------------------------------------------

\* The entry None of a coefficient list.
PyNone == <<0, 0>>

\* [v] * k: the empty list when k <= 0.
PyRepeat(v, k) == Tup([i \in 1..k |-> v])

\* Whether lst[i] = ... is inside the list (negative i counts from the end).
PyIndexOk(lst, i) == i < Len(lst) /\ i >= -Len(lst)

\* The list after lst[i] = v, for an index PyIndexOk accepts.
PySetItem(lst, i, v) ==
    Tup([lst EXCEPT ![IF i >= 0 THEN i + 1 ELSE Len(lst) + i + 1] = v])

\* (a[k] if a[k] is not None else 0), and (af[k] or 0).
OrZero(v) == IF v = PyNone THEN RZero ELSE v

\* ------------------------------------------------------------------------
\* series_first_order
\* ------------------------------------------------------------------------

\* a = [None] * (order + 1); a[0] = sympify(y0).
FirstAlloc(y0, order) ==
    LET lst == PyRepeat(PyNone, order + 1)
    IN  IF PyIndexOk(lst, 0)
        THEN [ok |-> TRUE, a |-> PySetItem(lst, 0, RInt(y0))]
        ELSE [ok |-> FALSE, a |-> lst]

\* Yn = sum((a[k] if a[k] is not None else 0) * t**k for k in range(n + 1)).
PartialSum(a, n) == Tup([k \in 1..(n + 1) |-> OrZero(a[k])])

\* The coefficient taken with x -> t in place of x -> x0 + t.
FirstCoeff_AtZero(F, x0, a, n) ==
    Coeff(SeriesRemoveO(SubsExpand(F, 0, <<PartialSum(a, n), <<>>, <<>>>>), n), n)

\* The coefficient of t^n of the right-hand side on the partial series.
FirstCoeff(F, x0, a, n) ==
    LET Yn    == PartialSum(a, n)
        F_sub == SubsExpand(F, x0, <<Yn, <<>>, <<>>>>)
        F_ser == SeriesRemoveO(F_sub, n)
    IN  Coeff(F_ser, n)

\* The pass writing the entry it has just read: a[n] = c_n / (n + 1).
FirstStepA_Rewrites(F, x0, a, n) ==
    PySetItem(a, n, RDivInt(FirstCoeff(F, x0, a, n), n + 1))

\* The pass without the division: a[n + 1] = c_n.
FirstStepA_NoDivide(F, x0, a, n) ==
    PySetItem(a, n + 1, FirstCoeff(F, x0, a, n))

\* One pass of the loop body: a[n + 1] = simplify(c_n / (n + 1)).
FirstStepA(F, x0, a, n) ==
    PySetItem(a, n + 1, RDivInt(FirstCoeff(F, x0, a, n), n + 1))

\* poly_t and expand(poly_t.subs(t, x - x0)).
FirstResult(a, order, x0) == ShiftTo(PartialSum(a, order), x0)

\* ------------------------------------------------------------------------
\* series_nth_order
\* ------------------------------------------------------------------------

\* for k, val in ics.items(): a[k] = sympify(val); ics is the sequence of
\* the mapping's <<key, value>> pairs in insertion order.
RECURSIVE IcsAssign(_, _)
IcsAssign(a, ics) ==
    IF Len(ics) = 0 THEN [ok |-> TRUE, a |-> a]
    ELSE IF PyIndexOk(a, Head(ics)[1])
         THEN IcsAssign(PySetItem(a, Head(ics)[1], RInt(Head(ics)[2])), Tail(ics))
         ELSE [ok |-> FALSE, a |-> a]

\* a = [S(0)] * (order + 1) followed by the ics loop.
NthAlloc(ics, order) == IcsAssign(PyRepeat(RZero, order + 1), ics)

Min(i, j) == IF i < j THEN i ELSE j

\* The helper one term short: range(min(K, order)).
Y_upto_Short(a, K, order) == Tup([i \in 1..Min(K, order) |-> a[i]])

\* Y_upto(K) = sum(a[i] * t**i for i in range(min(K, order) + 1)).
Y_upto(a, K, order) == Tup([i \in 1..(Min(K, order) + 1) |-> a[i]])

\* The derivative orders that are keys of subs_map: y(x) itself and, from
\* for k in range(1, m): subs_map[y(x).diff(x, k - 1)] = derivs[k - 1], the
\* orders k - 1 for k = 1..m-1.
NthMappedOrders(m) == {0} \cup {k - 1 : k \in 1..(m - 1)}

\* The substitution map of one step, as what replaces y, y' and y'': the
\* k-th t-derivative of Y where the order k is a key; y^(m-1) is not a key,
\* and SymPy turns the derivative with respect to x of the substituted
\* t-polynomial into 0.
NthSubsMap(m, Y) ==
    << Y,
       IF 1 \in NthMappedOrders(m) THEN PDiff(Y, 1) ELSE <<>>,
       IF 2 \in NthMappedOrders(m) THEN PDiff(Y, 2) ELSE <<>> >>

NthCoeff(m, G, x0, a, n, order) ==
    LET Y     == Y_upto(a, n + m - 1, order)
        G_sub == SubsExpand(G, x0, NthSubsMap(m, Y))
        G_ser == SeriesRemoveO(G_sub, n)
    IN  Coeff(G_ser, n)

\* The write of a step one index too low: a[n + m - 1] = ...
NthStepA_OffByOne(m, G, x0, a, n, order) ==
    PySetItem(a, n + m - 1,
              RDivInt(NthCoeff(m, G, x0, a, n, order),
                      Factorial(n + m) \div Factorial(n)))

\* The write of a step with the factor n + m in place of (n + m)!/n!.
NthStepA_NoFactor(m, G, x0, a, n, order) ==
    PySetItem(a, n + m, RDivInt(NthCoeff(m, G, x0, a, n, order), n + m))

\* factor = factorial(n + m) / factorial(n); a[n + m] = simplify(c_n / factor).
NthStepA(m, G, x0, a, n, order) ==
    PySetItem(a, n + m,
              RDivInt(NthCoeff(m, G, x0, a, n, order),
                      Factorial(n + m) \div Factorial(n)))

\* As if the sum started from a SymPy zero: sum(..., sp.S(0)).
EmptySumIsInt_Never(order) == FALSE

\* sum(... for k in range(order + 1)) over an empty range is the int 0, and
\* poly_t.subs then raises AttributeError.
EmptySumIsInt(order) == order + 1 <= 0

\* poly_t = sum(a[k] * t**k for k in range(order + 1)), shifted to x.
NthResult(a, order, x0) == ShiftTo(Tup([k \in 1..(order + 1) |-> a[k]]), x0)

\* ------------------------------------------------------------------------
\* series_system_2x2
\* ------------------------------------------------------------------------

SysCoeff(R, x0, af, ag, n) ==
    LET R_sub == SubsExpand(R, x0, <<PartialSum(af, n), PartialSum(ag, n), <<>>>>)
        R_ser == SeriesRemoveO(R_sub, n)
    IN  Coeff(R_ser, n)

\* The step without the division by n + 1: af[n + 1] = cF.
SysStepF_NoDivide(F, x0, af, ag, n) ==
    PySetItem(af, n + 1, SysCoeff(F, x0, af, ag, n))

\* Both coefficients are extracted before either list is written.
SysStepF(F, x0, af, ag, n) ==
    PySetItem(af, n + 1, RDivInt(SysCoeff(F, x0, af, ag, n), n + 1))

SysStepG(G, x0, af, ag, n) ==
    PySetItem(ag, n + 1, RDivInt(SysCoeff(G, x0, af, ag, n), n + 1))

\* ------------------------------------------------------------------------
\* The accesses to the coefficient lists, in program order: which entry an
\* initial assignment or a loop pass reads (the range of each partial sum)
\* and which it writes.
\* ------------------------------------------------------------------------

Ev(phase, n, op, lst, deg) ==
    [phase |-> phase, n |-> n, op |-> op, lst |-> lst, deg |-> deg]

\* The reads of sum(lst[k] * t**k for k in range(K + 1)) in pass n.
ReadsOf(n, lst, K) == Tup([k \in 1..(K + 1) |-> Ev("step", n, "read", lst, k - 1)])

\* a[0] = sympify(y0), when the list has an entry 0.
FirstInitEvents(order) ==
    IF FirstAlloc(0, order).ok THEN <<Ev("init", 0, "write", "a", 0)>> ELSE <<>>

\* Yn is summed over range(n + 1), then a[n + 1] is written.
FirstStepEvents(n) == ReadsOf(n, "a", n) \o <<Ev("step", n, "write", "a", n + 1)>>

\* The writes a[k] = ... of the ics loop on a list of len entries, up to the
\* first index outside the list; a negative key writes the entry len + k.
RECURSIVE IcsEvents(_, _)
IcsEvents(ics, len) ==
    IF Len(ics) = 0 THEN <<>>
    ELSE LET k == Head(ics)[1]
         IN  IF k < len /\ k >= -len
             THEN <<Ev("init", 0, "write", "a", IF k >= 0 THEN k ELSE len + k)>>
                      \o IcsEvents(Tail(ics), len)
             ELSE <<>>

NthInitEvents(ics, order) == IcsEvents(ics, Max(order + 1, 0))

\* Y_upto(n + m - 1) is summed over range(min(n + m - 1, order) + 1), then
\* a[n + m] is written.
NthStepEvents(m, n, order) ==
    ReadsOf(n, "a", Min(n + m - 1, order)) \o <<Ev("step", n, "write", "a", n + m)>>

\* af[0] = sympify(f0); ag[0] = sympify(g0).
SysInitEvents(order) ==
    IF FirstAlloc(0, order).ok
    THEN <<Ev("init", 0, "write", "af", 0), Ev("init", 0, "write", "ag", 0)>>
    ELSE <<>>

\* A pass that writes af[n + 1] before it builds G's partial sums, and sums
\* af over range(n + 2) there.
SysStepEvents_Sequential(n) ==
    ReadsOf(n, "af", n) \o ReadsOf(n, "ag", n)
        \o <<Ev("step", n, "write", "af", n + 1)>>
        \o ReadsOf(n, "af", n + 1) \o ReadsOf(n, "ag", n)
        \o <<Ev("step", n, "write", "ag", n + 1)>>

\* F_sub and G_sub are each built from the sums of af and ag over
\* range(n + 1); cF and cG are extracted; then af[n + 1] and ag[n + 1] are
\* written.
SysStepEvents(n) ==
    ReadsOf(n, "af", n) \o ReadsOf(n, "ag", n)
        \o ReadsOf(n, "af", n) \o ReadsOf(n, "ag", n)
        \o <<Ev("step", n, "write", "af", n + 1), Ev("step", n, "write", "ag", n + 1)>>

\* ------------------------------------------------------------------------
\* Values a function hands back: an expression, a tuple or a list of
\* expressions, None, or a raised exception.
\* ------------------------------------------------------------------------

Expr(p) == [tag |-> "expr", items |-> <<p>>]

Tuple2(p, q) == [tag |-> "tuple", items |-> <<p, q>>]

ListOf(ps) == [tag |-> "list", items |-> ps]

NoneValue == [tag |-> "None", items |-> <<>>]

Raised == [tag |-> "error", items |-> <<>>]

Pending == [tag |-> "pending", items |-> <<>>]

\* ------------------------------------------------------------------------
\* The three solvers as functions of their arguments: the loops run to
\* their end with the step operators above.
\* ------------------------------------------------------------------------

RECURSIVE FirstLoop(_, _, _, _, _)
FirstLoop(F, x0, order, a, n) ==
    IF n >= order THEN a
    ELSE FirstLoop(F, x0, order, FirstStepA(F, x0, a, n), n + 1)

series_first_order(F, y0, order, x0) ==
    LET al == FirstAlloc(y0, order)
    IN  IF ~al.ok THEN Raised
        ELSE Expr(FirstResult(FirstLoop(F, x0, order, al.a, 0), order, x0))

RECURSIVE NthLoop(_, _, _, _, _, _)
NthLoop(m, G, x0, order, a, n) ==
    IF n >= order - m + 1 THEN a
    ELSE NthLoop(m, G, x0, order, NthStepA(m, G, x0, a, n, order), n + 1)

series_nth_order(m, G, ics, order, x0) ==
    LET al == NthAlloc(ics, order)
    IN  IF ~al.ok \/ EmptySumIsInt(order) THEN Raised
        ELSE Expr(NthResult(NthLoop(m, G, x0, order, al.a, 0), order, x0))

RECURSIVE SysLoop(_, _, _, _, _, _, _)
SysLoop(F, G, x0, order, af, ag, n) ==
    IF n >= order THEN <<af, ag>>
    ELSE SysLoop(F, G, x0, order, SysStepF(F, x0, af, ag, n),
                 SysStepG(G, x0, af, ag, n), n + 1)

series_system_2x2(F, G, f0, g0, order, x0) ==
    LET alf == FirstAlloc(f0, order)
        alg == FirstAlloc(g0, order)
    IN  IF ~alf.ok \/ ~alg.ok THEN Raised
        ELSE LET fin == SysLoop(F, G, x0, order, alf.a, alg.a, 0)
             IN  Tuple2(FirstResult(fin[1], order, x0), FirstResult(fin[2], order, x0))

\* ------------------------------------------------------------------------
\* series_from_exact: dsolve, then the Taylor polynomial of its solution.
\* The closed form dsolve returns solves the ODE with y^(k)(x0) = ics[k], so
\* its Taylor coefficients about x0 are b_k = ics[k] / k! below m and follow
\* from the ODE, with every derivative of the solution in place, above.
\* ------------------------------------------------------------------------

RECURSIVE ExactScalarLoop(_, _, _, _, _, _)
ExactScalarLoop(m, G, vals, x0, order, b) ==
    LET k == Len(b)
        U == <<b, PDiff(b, 1), PDiff(b, 2)>>
        c == Coeff(SubsExpand(G, x0, U), k - m)
        next == IF k < m THEN RDivInt(RInt(vals[k + 1]), Factorial(k))
                ELSE RDivInt(c, Factorial(k) \div Factorial(k - m))
    IN  IF k > order THEN b
        ELSE ExactScalarLoop(m, G, vals, x0, order, Append(b, next))

\* series(expand(sol.rhs), x, x0, order + 1).removeO(), expanded.
ExactScalar(m, G, vals, order, x0) ==
    ShiftTo(ExactScalarLoop(m, G, vals, x0, order, <<>>), x0)

RECURSIVE ExactSystemLoop(_, _, _, _, _, _)
ExactSystemLoop(F, G, x0, order, bf, bg) ==
    LET k  == Len(bf)
        U  == <<bf, bg, <<>>>>
        nf == RDivInt(Coeff(SubsExpand(F, x0, U), k - 1), k)
        ng == RDivInt(Coeff(SubsExpand(G, x0, U), k - 1), k)
    IN  IF k > order THEN <<bf, bg>>
        ELSE ExactSystemLoop(F, G, x0, order, Append(bf, nf), Append(bg, ng))

ExactSystem(F, G, f0, g0, order, x0) ==
    LET fin == IF order < 0 THEN <<<<>>, <<>>>>
               ELSE ExactSystemLoop(F, G, x0, order, <<RInt(f0)>>, <<RInt(g0)>>)
    IN  <<ShiftTo(fin[1], x0), ShiftTo(fin[2], x0)>>

\* What dsolve and series can do to one call: dsolve raises (no closed form,
\* solver error), series raises on the returned form, dsolve returns one
\* Eq, or dsolve returns a list of Eq.
ExactOutcomes == {"raises", "badform", "single", "list"}

\* The values of the initial conditions in the order k = 0..m-1.
IcsValues(ics) == Tup([k \in 1..Len(ics) |-> ics[k][2]])

\* The Taylor polynomial(s) of the exact solution of a request.
ExactPolys(r) ==
    IF r.shape = "system" THEN ExactSystem(r.F, r.G, r.v0, r.w0, r.order, r.x0)
    ELSE IF r.shape = "first" THEN <<ExactScalar(1, r.F, <<r.v0>>, r.order, r.x0)>>
    ELSE <<ExactScalar(r.m, r.G, IcsValues(r.ics), r.order, r.x0)>>

\* The values series_from_exact can return for a request: try/except turns
\* every exception into None; a single Eq gives one polynomial; a list of
\* Eq gives the list of their polynomials (the two equations of a system,
\* or, for a scalar ODE, the branches dsolve kept: none or more than one).
SeriesFromExactReturns(r, outcome) ==
    IF outcome \in {"raises", "badform"} THEN {NoneValue}
    ELSE IF r.shape = "system"
         THEN IF outcome = "list" THEN {ListOf(ExactPolys(r))} ELSE {}
         ELSE IF outcome = "single" THEN {Expr(ExactPolys(r)[1])}
              ELSE {ListOf(<<>>), ListOf(ExactPolys(r) \o ExactPolys(r))}

\* ------------------------------------------------------------------------
\* Requests
\* ------------------------------------------------------------------------

\* Expansion points.
X0s == {0, 1}

Orders == -1..MaxOrder

Vals == 0..MaxVal

\* Right-hand sides F(x, y) of build_cases' first-order cases:
\* y, 2y, x^2, y^2, x*y, x + y^2, 5.
FirstRhs ==
    { <<Term(1, 0, 1, 0, 0)>>, <<Term(2, 0, 1, 0, 0)>>, <<Term(1, 2, 0, 0, 0)>>,
      <<Term(1, 0, 2, 0, 0)>>, <<Term(1, 1, 1, 0, 0)>>,
      <<Term(1, 1, 0, 0, 0), Term(1, 0, 2, 0, 0)>>, <<Term(5, 0, 0, 0, 0)>> }

\* Right-hand sides G(x, y, y', y'') of the m-th order cases: 0, 6, y, -y,
\* x + y, and with derivatives y', -y - y' (the damped oscillator), y''.
NthRhs ==
    { <<>>, <<Term(6, 0, 0, 0, 0)>>, <<Term(1, 0, 1, 0, 0)>>, <<Term(-1, 0, 1, 0, 0)>>,
      <<Term(1, 1, 0, 0, 0), Term(1, 0, 1, 0, 0)>>, <<Term(1, 0, 0, 1, 0)>>,
      <<Term(-1, 0, 1, 0, 0), Term(-1, 0, 0, 1, 0)>>, <<Term(1, 0, 0, 0, 1)>> }

\* G may mention y, ..., y^(m-1) only.
NthRhsFor(m) == {G \in NthRhs : TopSlot(G) <= m}

\* The pairs (F, G) of build_cases' systems: (g, -f), (f + g, f + g),
\* (x, f + g), (f*g, -f).
SysRhs ==
    { <<<<Term(1, 0, 0, 1, 0)>>, <<Term(-1, 0, 1, 0, 0)>>>>,
      <<<<Term(1, 0, 1, 0, 0), Term(1, 0, 0, 1, 0)>>,
        <<Term(1, 0, 1, 0, 0), Term(1, 0, 0, 1, 0)>>>>,
      <<<<Term(1, 1, 0, 0, 0)>>, <<Term(1, 0, 1, 0, 0), Term(1, 0, 0, 1, 0)>>>>,
      <<<<Term(1, 0, 1, 1, 0)>>, <<Term(-1, 0, 1, 0, 0)>>>> }

\* A complete ics mapping {0: v0, ..., m-1: v_{m-1}}.
CompleteIcs(m) == {Tup([k \in 1..m |-> <<k - 1, v[k]>>]) : v \in [1..m -> Vals]}

\* {k: 1 for k in 0..m-1}.
OnesIcs(m) == Tup([k \in 1..m |-> <<k - 1, 1>>])

Without(seq, j) == SubSeq(seq, 1, j - 1) \o SubSeq(seq, j + 1, Len(seq))

\* An ics mapping that lacks one of the keys 0..m-1.
MissingIcs(m) == {Without(OnesIcs(m), j) : j \in 1..m}

\* An ics mapping with a key outside 0..m-1 added last.
ExtraIcs(m) == {Append(OnesIcs(m), <<k, MaxVal + 1>>) : k \in {-1, m, m + 1}}

IcsKeys(ics) == {ics[k][1] : k \in 1..Len(ics)}

\* The mapping has exactly the keys 0..m-1.
IsCompleteIcs(m, ics) == IcsKeys(ics) = 0..(m - 1)

Request(kind, shape, m, F, G, ics, v0, w0, order, x0, complete) ==
    [kind |-> kind, shape |-> shape, m |-> m, F |-> F, G |-> G, ics |-> ics,
     v0 |-> v0, w0 |-> w0, order |-> order, x0 |-> x0, complete |-> complete]

FirstRequests(kind, orders) ==
    {Request(kind, "first", 1, F, <<>>, <<>>, y0, 0, order, x0, TRUE) :
        F \in FirstRhs, y0 \in Vals, order \in orders, x0 \in X0s}

AnyIcs(m) == CompleteIcs(m) \cup MissingIcs(m) \cup ExtraIcs(m)

\* The initial data of build_cases' m-th order cases: one derivative value
\* nonzero (as {0: 1, 1: 0} and {0: 0, 1: 1}), or none.
UnitIcs(m) ==
    {Tup([k \in 1..m |-> <<k - 1, IF k = j THEN v ELSE 0>>]) : j \in 1..m, v \in Vals}

\* The ics mappings of a direct call (any) or of a case record (build_cases').
IcsOf(kind, m) == IF kind = "call" THEN AnyIcs(m) ELSE UnitIcs(m)

NthRequests(kind, orders) ==
    UNION {{Request(kind, "nth", m, <<>>, G, ics, 0, 0, order, x0, TRUE) :
                G \in NthRhsFor(m), ics \in IcsOf(kind, m), order \in orders, x0 \in X0s} :
           m \in 1..MaxM}

SystemRequests(kind, orders) ==
    {Request(kind, "system", 1, FG[1], FG[2], <<>>, f0, g0, order, x0, TRUE) :
        FG \in SysRhs, f0 \in Vals, g0 \in Vals, order \in orders, x0 \in X0s}

\* The arguments of build_cases' records with an expected series that the
\* families above do not hold: y' = y, y(0) = 1, order 6; y' = 2y, y(0) = 3,
\* order 4; y' = x^2, y(0) = 0, order 5; y' = x^2, y(1) = 2, order 4;
\* y' = 3x, y(0) = 2, order 1; y''' = 0 with {0: 1, 1: 2, 2: 3}, order 3;
\* y''' = x + y with {0: 1, 1: 0, 2: 0}, order 5; y''' = 6 at x0 = 2, order 4;
\* f' = f + g, g' = f + g, f(0) = 1, g(0) = 0, order 5. The right-hand sides
\* are SymPy expressions, as the signatures say (sp.Expr).
BuildCaseCalls ==
    { Request("call", "first", 1, <<Term(1, 0, 1, 0, 0)>>, <<>>, <<>>, 1, 0, 6, 0, TRUE),
      Request("call", "first", 1, <<Term(2, 0, 1, 0, 0)>>, <<>>, <<>>, 3, 0, 4, 0, TRUE),
      Request("call", "first", 1, <<Term(1, 2, 0, 0, 0)>>, <<>>, <<>>, 0, 0, 5, 0, TRUE),
      Request("call", "first", 1, <<Term(1, 2, 0, 0, 0)>>, <<>>, <<>>, 2, 0, 4, 1, TRUE),
      Request("call", "first", 1, <<Term(3, 1, 0, 0, 0)>>, <<>>, <<>>, 2, 0, 1, 0, TRUE),
      Request("call", "nth", 3, <<>>, <<>>, <<<<0, 1>>, <<1, 2>>, <<2, 3>>>>, 0, 0, 3, 0, TRUE),
      Request("call", "nth", 3, <<>>, <<Term(1, 1, 0, 0, 0), Term(1, 0, 1, 0, 0)>>,
              <<<<0, 1>>, <<1, 0>>, <<2, 0>>>>, 0, 0, 5, 0, TRUE),
      Request("call", "nth", 3, <<>>, <<Term(6, 0, 0, 0, 0)>>,
              <<<<0, 0>>, <<1, 0>>, <<2, 0>>>>, 0, 0, 4, 2, TRUE),
      Request("call", "system", 1, <<Term(1, 0, 1, 0, 0), Term(1, 0, 0, 1, 0)>>,
              <<Term(1, 0, 1, 0, 0), Term(1, 0, 0, 1, 0)>>, <<>>, 1, 0, 5, 0, TRUE) }

\* Direct calls of the three entry points, with any arguments.
CallRequests ==
    FirstRequests("call", Orders) \cup NthRequests("call", Orders)
        \cup SystemRequests("call", Orders) \cup BuildCaseCalls

\* An nth ScalarCase whose m, G or ics_nth is None.
MalformedCases ==
    {Request("case", "nth", 1, <<>>, <<>>, <<>>, 0, 0, order, 0, FALSE) : order \in 0..MaxOrder}

\* ScalarCase and SystemCase records handed to the runner.
CaseRequests ==
    FirstRequests("case", 0..MaxOrder) \cup NthRequests("case", 0..MaxOrder)
        \cup SystemRequests("case", 0..MaxOrder) \cup MalformedCases

\* ------------------------------------------------------------------------
\* State
\* ------------------------------------------------------------------------

VARIABLES
    req,     \* the arguments of the call, or the case handed to the runner
    pc,      \* where control is
    solver,  \* the recurrence solver that was called ("" when none)
    a,       \* the coefficient list of the scalar solvers
    af,      \* the coefficient lists of the system solver
    ag,
    n,       \* the loop variable
    ret,     \* what the recurrence solver returned
    exact,   \* what series_from_exact returned
    got,     \* the runner's variable got
    trace,   \* the functions called so far, in order
    calls,   \* the frames of two calls run side by side (empty otherwise)
    heap,    \* the list objects those calls have created
    log,     \* the reads and writes of list entries made by the initial
             \* assignments and the loop passes of the solver, in order
    main     \* main's cases, its position among them, the tags it printed,
             \* its list failures and its final report

vars == <<req, pc, solver, a, af, ag, n, ret, exact, got, trace, calls, heap, log, main>>

SolverOf(shape) ==
    IF shape = "first" THEN "series_first_order"
    ELSE IF shape = "system" THEN "series_system_2x2"
    ELSE "series_nth_order"

InitCall ==
    /\ req \in CallRequests
    /\ pc = "alloc"
    /\ solver = SolverOf(req.shape)
    /\ trace = <<SolverOf(req.shape)>>

InitCase ==
    /\ req \in CaseRequests
    /\ pc = "run"
    /\ solver = ""
    /\ trace = <<>>

InitLocals ==
    /\ a = <<>>
    /\ af = <<>>
    /\ ag = <<>>
    /\ n = 0
    /\ ret = Pending
    /\ exact = Pending
    /\ got = Pending
    /\ log = <<>>

\* No calls run side by side.
NoPair ==
    /\ calls = <<>>
    /\ heap = <<>>

\* main is not running.
NoCases == [cases |-> <<>>, i |-> 0, tags |-> <<>>, failures |-> <<>>,
            result |-> "", listed |-> <<>>]

NoMain == main = NoCases

\* A direct call of one of the three entry points.
Init == InitCall /\ InitLocals /\ NoPair /\ NoMain

\* A case handed to run_scalar_case or run_system_case.
InitRun == InitCase /\ InitLocals /\ NoPair /\ NoMain

\* ------------------------------------------------------------------------
\* The runner: run_scalar_case and run_system_case
\* ------------------------------------------------------------------------

\* Entry: a malformed nth case raises ValueError; otherwise the ODE and the
\* initial conditions are built and series_from_exact is called.
RunCase ==
    /\ pc = "run"
    /\ IF req.shape = "nth" /\ ~req.complete
       THEN /\ pc' = "raised"
            /\ UNCHANGED trace
       ELSE /\ pc' = "exact"
            /\ trace' = Append(trace, "series_from_exact")
    /\ UNCHANGED <<main, log, calls, heap, req, solver, a, af, ag, n, ret, exact, got>>

\* series_from_exact runs and returns to got = series_from_exact(...).
SeriesFromExact ==
    /\ pc = "exact"
    /\ \E outcome \in ExactOutcomes :
         \E v \in SeriesFromExactReturns(req, outcome) :
            /\ exact' = v
            /\ got' = v
    /\ pc' = "fallback"
    /\ UNCHANGED <<main, log, calls, heap, req, solver, a, af, ag, n, ret, trace>>

\* The fallback taken whatever series_from_exact returned.
FallbackAlways ==
    /\ pc = "fallback"
    /\ pc' = "alloc"
    /\ solver' = SolverOf(req.shape)
    /\ trace' = Append(trace, SolverOf(req.shape))
    /\ UNCHANGED <<main, log, calls, heap, req, a, af, ag, n, ret, exact, got>>

\* if got is None: got = series_...(...), the solver of the case's shape.
Fallback ==
    /\ pc = "fallback"
    /\ IF got = NoneValue
       THEN /\ pc' = "alloc"
            /\ solver' = SolverOf(req.shape)
            /\ trace' = Append(trace, SolverOf(req.shape))
       ELSE /\ pc' = "compare"
            /\ UNCHANGED <<solver, trace>>
    /\ UNCHANGED <<main, log, calls, heap, req, a, af, ag, n, ret, exact, got>>

\* A solver's return: to the caller of a direct call, or into got.
Return(v) ==
    /\ ret' = v
    /\ IF req.kind = "case"
       THEN pc' = "compare" /\ got' = v
       ELSE pc' = "returned" /\ UNCHANGED got

\* An exception leaves the solver and, uncaught, the runner.
Raise ==
    /\ ret' = Raised
    /\ pc' = "raised"
    /\ UNCHANGED got

\* The result reaches the comparison; a system's got is unpacked first
\* (got[0], got[1] of a list, or the tuple).
HandToComparison ==
    /\ pc = "compare"
    /\ IF req.shape = "system" /\ Len(got.items) < 2
       THEN pc' = "raised"
       ELSE pc' = "done"
    /\ UNCHANGED <<main, log, calls, heap, req, solver, a, af, ag, n, ret, exact, got, trace>>

\* ------------------------------------------------------------------------
\* The solvers, one loop pass at a time
\* ------------------------------------------------------------------------

FirstInit ==
    /\ pc = "alloc" /\ solver = "series_first_order"
    /\ LET al == FirstAlloc(req.v0, req.order)
       IN  IF al.ok
           THEN a' = al.a /\ pc' = "loop" /\ UNCHANGED <<ret, got>>
           ELSE a' = al.a /\ Raise
    /\ n' = 0
    /\ log' = log \o FirstInitEvents(req.order)
    /\ UNCHANGED <<main, calls, heap, req, solver, af, ag, exact, trace>>

\* The loop variable advanced by two in one pass.
FirstStep_Skips ==
    /\ pc = "loop" /\ solver = "series_first_order"
    /\ n < req.order
    /\ a' = FirstStepA(req.F, req.x0, a, n)
    /\ n' = n + 2
    /\ log' = log \o FirstStepEvents(n)
    /\ UNCHANGED <<main, calls, heap, req, pc, solver, af, ag, ret, exact, got, trace>>

\* One pass of for n in range(order).
FirstStep ==
    /\ pc = "loop" /\ solver = "series_first_order"
    /\ n < req.order
    /\ a' = FirstStepA(req.F, req.x0, a, n)
    /\ n' = n + 1
    /\ log' = log \o FirstStepEvents(n)
    /\ UNCHANGED <<main, calls, heap, req, pc, solver, af, ag, ret, exact, got, trace>>

FirstReturn ==
    /\ pc = "loop" /\ solver = "series_first_order"
    /\ n >= req.order
    /\ Return(Expr(FirstResult(a, req.order, req.x0)))
    /\ UNCHANGED <<main, log, calls, heap, req, solver, a, af, ag, n, exact, trace>>

\* The ics loop marking each entry of the caller's mapping as used
\* (ics[k] = 0 after reading it).
NthInit_ConsumesIcs ==
    /\ pc = "alloc" /\ solver = "series_nth_order"
    /\ LET al == NthAlloc(req.ics, req.order)
       IN  IF al.ok
           THEN a' = al.a /\ pc' = "loop" /\ UNCHANGED <<ret, got>>
           ELSE a' = al.a /\ Raise
    /\ n' = 0
    /\ log' = log \o NthInitEvents(req.ics, req.order)
    /\ UNCHANGED <<main, calls, heap, solver, af, ag, exact, trace>>
    /\ req' = [req EXCEPT !.ics = Tup([k \in 1..Len(req.ics) |-> <<req.ics[k][1], 0>>])]

NthInit ==
    /\ pc = "alloc" /\ solver = "series_nth_order"
    /\ LET al == NthAlloc(req.ics, req.order)
       IN  IF al.ok
           THEN a' = al.a /\ pc' = "loop" /\ UNCHANGED <<ret, got>>
           ELSE a' = al.a /\ Raise
    /\ n' = 0
    /\ log' = log \o NthInitEvents(req.ics, req.order)
    /\ UNCHANGED <<main, calls, heap, req, solver, af, ag, exact, trace>>

NthStep ==
    /\ pc = "loop" /\ solver = "series_nth_order"
    /\ n < req.order - req.m + 1
    /\ a' = NthStepA(req.m, req.G, req.x0, a, n, req.order)
    /\ n' = n + 1
    /\ log' = log \o NthStepEvents(req.m, n, req.order)
    /\ UNCHANGED <<main, calls, heap, req, pc, solver, af, ag, ret, exact, got, trace>>

NthReturn ==
    /\ pc = "loop" /\ solver = "series_nth_order"
    /\ n >= req.order - req.m + 1
    /\ IF EmptySumIsInt(req.order)
       THEN Raise
       ELSE Return(Expr(NthResult(a, req.order, req.x0)))
    /\ UNCHANGED <<main, log, calls, heap, req, solver, a, af, ag, n, exact, trace>>

SysInit ==
    /\ pc = "alloc" /\ solver = "series_system_2x2"
    /\ LET alf == FirstAlloc(req.v0, req.order)
           alg == FirstAlloc(req.w0, req.order)
       IN  IF alf.ok /\ alg.ok
           THEN af' = alf.a /\ ag' = alg.a /\ pc' = "loop" /\ UNCHANGED <<ret, got>>
           ELSE af' = alf.a /\ ag' = alg.a /\ Raise
    /\ n' = 0
    /\ log' = log \o SysInitEvents(req.order)
    /\ UNCHANGED <<main, calls, heap, req, solver, a, exact, trace>>

SysStep ==
    /\ pc = "loop" /\ solver = "series_system_2x2"
    /\ n < req.order
    /\ af' = SysStepF(req.F, req.x0, af, ag, n)
    /\ ag' = SysStepG(req.G, req.x0, af, ag, n)
    /\ n' = n + 1
    /\ log' = log \o SysStepEvents(n)
    /\ UNCHANGED <<main, calls, heap, req, pc, solver, a, ret, exact, got, trace>>

SysReturn ==
    /\ pc = "loop" /\ solver = "series_system_2x2"
    /\ n >= req.order
    /\ Return(Tuple2(FirstResult(af, req.order, req.x0), FirstResult(ag, req.order, req.x0)))
    /\ UNCHANGED <<main, log, calls, heap, req, solver, a, af, ag, n, exact, trace>>

\* The steps of the three solvers.
NextSolver ==
    \/ FirstInit
    \/ FirstStep
    \/ FirstReturn
    \/ NthInit
    \/ NthStep
    \/ NthReturn
    \/ SysInit
    \/ SysStep
    \/ SysReturn

Next == NextSolver

\* The entry points called directly.
Spec == Init /\ [][Next]_vars

\* No call yet: the request slot is empty.
NoRequest == Request("none", "none", 1, <<>>, <<>>, <<>>, 0, 0, -1, 0, TRUE)

InitIdle ==
    /\ req = NoRequest
    /\ pc = "idle"
    /\ solver = ""
    /\ trace = <<>>
    /\ InitLocals
    /\ NoPair
    /\ NoMain

\* The caller invokes one of the three entry points.
Call ==
    /\ pc = "idle"
    /\ req' \in CallRequests
    /\ pc' = "alloc"
    /\ solver' = SolverOf(req'.shape)
    /\ trace' = <<SolverOf(req'.shape)>>
    /\ UNCHANGED <<main, log, calls, heap, a, af, ag, n, ret, exact, got>>

NextFair ==
    \/ Call
    \/ NextSolver

\* A call is under way.
Running == pc \in {"idle", "alloc", "loop"}

\* Control moves: the position or the loop variable changes. Every action
\* of NextFair is such a step, and a running call always has one to take
\* (the loops' guards n < bound and n >= bound are complementary).
Advance ==
    /\ Running
    /\ pc' \in {"alloc", "loop", "returned", "raised"}
    /\ n' \in {n, n + 1}

\* A call from its invocation on, with the interpreter never stopping in
\* the middle of it.
SpecFair == InitIdle /\ [][NextFair]_vars /\ WF_<<pc, n>>(Advance)

NextRun ==
    \/ RunCase
    \/ SeriesFromExact
    \/ Fallback
    \/ HandToComparison
    \/ NextSolver

\* The runner on one case.
SpecRun == InitRun /\ [][NextRun]_vars

\* The solver of a request as a function of the request.
Solve(r) ==
    IF r.shape = "first" THEN series_first_order(r.F, r.v0, r.order, r.x0)
    ELSE IF r.shape = "system"
         THEN series_system_2x2(r.F, r.G, r.v0, r.w0, r.order, r.x0)
         ELSE series_nth_order(r.m, r.G, r.ics, r.order, r.x0)

\* ------------------------------------------------------------------------
\* Two calls side by side: each has its own frame (arguments, position,
\* loop variable, references to its lists); the lists are objects of the
\* interpreter's heap, created by [None] * (order + 1) and [S(0)] * (order + 1).
\* The only module-level names the solvers touch are the symbols x and I,
\* which they read.
\* ------------------------------------------------------------------------

CallIds == {1, 2}

\* The arguments the two calls are drawn from: one family per solver, with
\* an order that raises and one that runs two passes.
PairPool ==
    {r \in CallRequests :
        /\ r.x0 = 0
        /\ r.order \in {-1, 2}
        /\ r.shape = "first" => r.F = <<Term(1, 0, 1, 0, 0)>>
        /\ r.shape = "nth" =>
             /\ r.m = 1
             /\ r.G = <<Term(1, 1, 0, 0, 0), Term(1, 0, 1, 0, 0)>>
             /\ IsCompleteIcs(r.m, r.ics)
        /\ r.shape = "system" =>
             /\ r.F = <<Term(1, 0, 0, 1, 0)>>
             /\ r.v0 = 1}

Frame(r) == [req |-> r, pc |-> "alloc", n |-> 0, refs |-> <<>>, ret |-> Pending]

\* Every new list object is given the same address.
AllocAddr_Shared(h) == 1

\* A list constructor returns a new object: an address not in use.
AllocAddr(h) == Len(h) + 1

\* The heap with the object at address ad set to lst.
Store(h, ad, lst) == IF ad > Len(h) THEN Append(h, lst) ELSE [h EXCEPT ![ad] = lst]

\* The loop bound of a frame's solver.
LoopBound(r) == IF r.shape = "nth" THEN r.order - r.m + 1 ELSE r.order

InitPair ==
    /\ calls \in [CallIds -> {Frame(r) : r \in PairPool}]
    /\ heap = <<>>
    /\ req = NoRequest
    /\ pc = "idle"
    /\ solver = ""
    /\ trace = <<>>
    /\ InitLocals
    /\ NoMain

\* The allocation and the initial assignments of call i.
PairInit(i) ==
    LET c  == calls[i]
        r  == c.req
        al == IF r.shape = "nth" THEN NthAlloc(r.ics, r.order)
              ELSE FirstAlloc(r.v0, r.order)
        ag0 == FirstAlloc(r.w0, r.order)
        ad1 == AllocAddr(heap)
        h1  == Store(heap, ad1, al.a)
        ad2 == AllocAddr(h1)
        ok  == al.ok /\ (r.shape = "system" => ag0.ok)
    IN  /\ c.pc = "alloc"
        /\ heap' = IF r.shape = "system" THEN Store(h1, ad2, ag0.a) ELSE h1
        /\ calls' = [calls EXCEPT ![i] =
                        [c EXCEPT !.pc = IF ok THEN "loop" ELSE "raised",
                                  !.refs = IF r.shape = "system" THEN <<ad1, ad2>> ELSE <<ad1>>,
                                  !.ret = IF ok THEN Pending ELSE Raised]]
        /\ UNCHANGED <<main, log, req, pc, solver, a, af, ag, n, ret, exact, got, trace>>

\* One pass of the loop of call i, on the lists its frame refers to.
PairStep(i) ==
    LET c == calls[i]
        r == c.req
        l1 == heap[c.refs[1]]
    IN  /\ c.pc = "loop"
        /\ c.n < LoopBound(r)
        /\ heap' =
             IF r.shape = "first"
             THEN [heap EXCEPT ![c.refs[1]] = FirstStepA(r.F, r.x0, l1, c.n)]
             ELSE IF r.shape = "nth"
             THEN [heap EXCEPT ![c.refs[1]] = NthStepA(r.m, r.G, r.x0, l1, c.n, r.order)]
             ELSE [heap EXCEPT ![c.refs[1]] = SysStepF(r.F, r.x0, l1, heap[c.refs[2]], c.n),
                               ![c.refs[2]] = SysStepG(r.G, r.x0, l1, heap[c.refs[2]], c.n)]
        /\ calls' = [calls EXCEPT ![i].n = c.n + 1]
        /\ UNCHANGED <<main, log, req, pc, solver, a, af, ag, n, ret, exact, got, trace>>

\* The return of call i.
PairReturn(i) ==
    LET c == calls[i]
        r == c.req
        l1 == heap[c.refs[1]]
        v == IF r.shape = "first" THEN Expr(FirstResult(l1, r.order, r.x0))
             ELSE IF r.shape = "nth" THEN Expr(NthResult(l1, r.order, r.x0))
             ELSE Tuple2(FirstResult(l1, r.order, r.x0),
                         FirstResult(heap[c.refs[2]], r.order, r.x0))
        fails == r.shape = "nth" /\ EmptySumIsInt(r.order)
    IN  /\ c.pc = "loop"
        /\ c.n >= LoopBound(r)
        /\ calls' = [calls EXCEPT ![i] =
                        [c EXCEPT !.pc = IF fails THEN "raised" ELSE "returned",
                                  !.ret = IF fails THEN Raised ELSE v]]
        /\ UNCHANGED <<main, log, heap, req, pc, solver, a, af, ag, n, ret, exact, got, trace>>

\* Any call takes its next step.
NextPair ==
    \E i \in CallIds :
        \/ PairInit(i)
        \/ PairStep(i)
        \/ PairReturn(i)

\* Two calls with their steps interleaved in any order.
SpecPair == InitPair /\ [][NextPair]_vars

\* ------------------------------------------------------------------------
\* Properties
\* ------------------------------------------------------------------------

\* The coefficient of (x - x0)^k of a returned polynomial in x.
CoeffAbout(p, x0, k) == Coeff(AboutPoint(p, x0), k)

\* The value the ics mapping holds for key k.
IcsValue(ics, k) == ics[CHOOSE i \in 1..Len(ics) : ics[i][1] = k][2]

\* The request is one of the data model: an m-th order request carries
\* exactly the initial values 0..m-1.
WellFormed(r) == r.shape = "nth" => IsCompleteIcs(r.m, r.ics)

\* G at x = x0 with y, y', y'' replaced by the supplied initial values.
RhsAtInitialValues(r) ==
    LET val(j) == IF j < r.m THEN <<RInt(IcsValue(r.ics, j))>> ELSE <<>>
    IN  Coeff(SubsExpand(r.G, r.x0, <<val(0), val(1), val(2)>>), 0)

AtOrder(r, N) == [r EXCEPT !.order = N]

\* Two results of the same kind whose series agree in the degrees 0..N.
PrefixAgrees(small, big, x0, N) ==
    /\ small.tag = big.tag
    /\ Len(small.items) = Len(big.items)
    /\ \A i \in 1..Len(big.items) : \A k \in 0..N :
         CoeffAbout(small.items[i], x0, k) = CoeffAbout(big.items[i], x0, k)

\* C1 (agreement law): whenever a recurrence solver returns on a request of
\* the data model, its series equals, coefficient by coefficient, the Taylor
\* polynomial series_from_exact returns when the exact solve succeeds.
C1_AgreementLaw ==
    (pc = "returned" /\ WellFormed(req)) => ret.items = ExactPolys(req)

C3_CausalityLaw ==
    (pc = "returned" /\ WellFormed(req)) =>
        \A N \in 0..(req.order - 1) :
            PrefixAgrees(Solve(AtOrder(req, N)), ret, req.x0, N)

\* The causality law where the solve at the lower order returns too.
CausalityWhenBothReturn ==
    (pc = "returned" /\ WellFormed(req)) =>
        \A N \in 0..(req.order - 1) :
            Solve(AtOrder(req, N)).tag # "error" =>
                PrefixAgrees(Solve(AtOrder(req, N)), ret, req.x0, N)

\* C4 (derivative-consistency law): for series_nth_order with N >= m, m!
\* times the coefficient of degree m of the returned series is G at x0 on
\* the supplied initial values.
C4_DerivativeConsistency ==
    (pc = "returned" /\ req.shape = "nth" /\ WellFormed(req) /\ req.order >= req.m) =>
        RMul(RInt(Factorial(req.m)), CoeffAbout(ret.items[1], req.x0, req.m))
            = RhsAtInitialValues(req)

\* C5 (path ordering): the runner calls series_from_exact first and once; a
\* recurrence solver is called if and only if that returned None, and it is
\* the solver of the case's shape.
C5_PathOrdering ==
    /\ pc \in {"exact", "fallback", "alloc", "loop", "compare", "done"} =>
         Len(trace) >= 1
    /\ Len(trace) >= 1 => trace[1] = "series_from_exact"
    /\ Len(trace) <= 2
    /\ Len(trace) = 2 =>
         /\ exact = NoneValue
         /\ solver = trace[2]
         /\ req.shape = "first" => trace[2] = "series_first_order"
         /\ req.shape = "nth" => trace[2] = "series_nth_order"
         /\ req.shape = "system" => trace[2] = "series_system_2x2"
    /\ (solver # "" \/ pc \in {"alloc", "loop"}) => Len(trace) = 2
    /\ pc \in {"compare", "done"} => (exact = NoneValue <=> Len(trace) = 2)

\* A system case that fell back to series_system_2x2 and finished, and (in
\* another run) a case whose fast path succeeded: here the former.
C5_Witness ==
    /\ pc = "done"
    /\ exact = NoneValue
    /\ trace = <<"series_from_exact", "series_system_2x2">>
    /\ n > 0

\* C6 (fast-path failure is recovered): series_from_exact never raises, and
\* once it returned None the enclosing run does not end in an exception but
\* with the series the recurrence produced.
C6_FastPathFailureRecovered ==
    /\ exact.tag # "error"
    /\ exact = NoneValue => pc # "raised"
    /\ (exact = NoneValue /\ pc = "done") =>
         (got = ret /\ ret.tag \in {"expr", "tuple"})

\* C7 (output shape): what reaches the comparison is one series for a
\* scalar case and a pair of series for a system, whichever path produced
\* it and whatever dsolve returned.
C7_OutputShape ==
    pc = "compare" =>
        IF req.shape = "system"
        THEN got.tag \in {"tuple", "list"} /\ Len(got.items) = 2
        ELSE got.tag = "expr"

\* C8 (missing initial condition): series_nth_order called with an ics
\* mapping that lacks a key of 0..m-1 raises and returns no series.
C8_MissingIcsRejected ==
    (req.shape = "nth" /\ (0..(req.m - 1)) \ IcsKeys(req.ics) # {}) =>
        (pc # "returned" /\ ret.tag \in {"pending", "error"})

\* C9 (extra or mismatched initial conditions): series_nth_order called
\* with an ics mapping that has a key outside 0..m-1 (with the keys 0..m-1
\* there too, more than m entries) raises and returns no series.
C9_ExtraIcsRejected ==
    (req.shape = "nth" /\ IcsKeys(req.ics) \ (0..(req.m - 1)) # {}) =>
        (pc # "returned" /\ ret.tag # "expr")

\* C10 (negative truncation order): each entry point called with order < 0
\* raises: control never reaches a return and no series is handed back.
C10_NegativeOrderFails ==
    req.order < 0 =>
        /\ pc \in {"alloc", "loop", "raised"}
        /\ ret.tag \in {"pending", "error"}
        /\ pc = "raised" <=> ret = Raised

\* series_nth_order with order < 0 and an empty ics mapping: the ics loop
\* raises nothing, the loop runs no pass, and the return raises.
C10_Witness ==
    /\ req.order < 0
    /\ req.shape = "nth" /\ req.ics = <<>>
    /\ pc = "raised" /\ ret = Raised

\* C11: series_nth_order called with 0 <= N < m-1 and a complete ics mapping
\* returns normally (it does not raise), has run no recurrence step, and its
\* result is the polynomial whose coefficients of degrees 0..N are the
\* supplied ics values.
C11_ShortOrderReturns ==
    (req.shape = "nth" /\ IsCompleteIcs(req.m, req.ics)
        /\ 0 <= req.order /\ req.order < req.m - 1) =>
        /\ pc # "raised"
        /\ n = 0
        /\ pc = "returned" =>
             \A k \in 0..req.order :
                CoeffAbout(ret.items[1], req.x0, k) = RInt(IcsValue(req.ics, k))

\* A request with complete initial data and an order the claim covers:
\* N >= 0, and N >= m-1 for the m-th order solver.
StepCountCase(r) ==
    /\ WellFormed(r)
    /\ r.order >= 0
    /\ r.shape = "nth" => r.order >= r.m - 1

\* The number of recurrence steps the claim states for a request.
StepsOf(r) == IF r.shape = "nth" THEN r.order - r.m + 1 ELSE r.order

\* A pass of a loop changes nothing but the entry n + m of the lists
\* (m = 1 for the first-order and the system solver).
OnlyEntryWritten(lst, lstNew, i) ==
    /\ Len(lstNew) = Len(lst)
    /\ \A k \in 1..Len(lst) : lstNew[k] # lst[k] => k = i + 1

\* C12: with complete initial data and N >= 0 (N >= m-1 for the m-th order
\* solver) every call terminates by returning, after exactly N steps
\* (series_first_order, series_system_2x2) or N-m+1 steps (series_nth_order);
\* every pass advances the loop variable by one and writes only the entry
\* n+m, never an earlier one; at N = 0 the first-order solver runs no step and
\* returns the constant y0.
C12_TerminationAndStepCount ==
    /\ [](StepCountCase(req) => <>(pc = "returned"))
    /\ []((StepCountCase(req) /\ pc = "returned") => n = StepsOf(req))
    /\ []((req.shape = "first" /\ req.order = 0 /\ pc = "returned") =>
            (n = 0 /\ ret = Expr(Strip(<<RInt(req.v0)>>))))
    /\ [][(StepCountCase(req) /\ n' # n) =>
            /\ n' = n + 1
            /\ OnlyEntryWritten(a, a', n + req.m)
            /\ OnlyEntryWritten(af, af', n + req.m)
            /\ OnlyEntryWritten(ag, ag', n + req.m)]_vars

\* C12 witness: an m-th order call (m >= 2) that returned after N-m+1 >= 2
\* steps.
C12_Witness ==
    /\ pc = "returned" /\ req.shape = "nth" /\ StepCountCase(req)
    /\ req.m >= 2
    /\ n = req.order - req.m + 1
    /\ n >= 2

RECURSIVE Pow(_, _)
Pow(b, e) == IF e = 0 THEN 1 ELSE b * Pow(b, e - 1)

\* The call series_system_2x2(f + g, f + g, 1, 0, N, 0).
IsExpSystem(r) ==
    /\ r.shape = "system"
    /\ r.F = <<Term(1, 0, 1, 0, 0), Term(1, 0, 0, 1, 0)>>
    /\ r.G = r.F
    /\ r.v0 = 1 /\ r.w0 = 0 /\ r.x0 = 0

\* C13: for f' = f + g, g' = f + g, f(0) = 1, g(0) = 0 about 0 the system
\* solver returns, at every order N, af_0 = 1, ag_0 = 0 and
\* af_k = ag_k = 2^(k-1)/k! for 1 <= k <= N; at N = 5 f is
\* 1 + x + x^2 + 2x^3/3 + x^4/3 + 2x^5/15 and the x^5 coefficient of g is 2/15.
C13_CoupledExponential ==
    (pc = "returned" /\ IsExpSystem(req)) =>
        /\ Coeff(ret.items[1], 0) = ROne
        /\ Coeff(ret.items[2], 0) = RZero
        /\ \A k \in 1..req.order :
             /\ Coeff(ret.items[1], k) = Norm(Pow(2, k - 1), Factorial(k))
             /\ Coeff(ret.items[2], k) = Norm(Pow(2, k - 1), Factorial(k))
        /\ req.order = 5 =>
             /\ ret.items[1] = <<ROne, ROne, ROne, <<2, 3>>, <<1, 3>>, <<2, 15>>>>
             /\ Coeff(ret.items[2], 5) = <<2, 15>>

\* C13 witness: the order 5 call of build_cases has returned.
C13_Witness ==
    /\ pc = "returned" /\ IsExpSystem(req)
    /\ req.order = 5
    /\ n = 5

\* The right-hand side is a constant c (the empty sum is 0).
IsConstantRhs(G) ==
    \/ G = <<>>
    \/ Len(G) = 1 /\ G[1].px = 0 /\ G[1].pu = <<0, 0, 0>>

ConstantOf(G) == IF G = <<>> THEN 0 ELSE G[1].c

\* C14: for y^(m) = c with initial values y^(k)(x0) = v_k the m-th order
\* solver returns sum_{k<m} (v_k/k!) (x-x0)^k + (c/m!) (x-x0)^m, every
\* coefficient of degree > m being 0; y''' = 0 with 1, 2, 3 at order 3 gives
\* 1 + 2x + (3/2)x^2.
C14_ConstantRhs ==
    (pc = "returned" /\ req.shape = "nth" /\ IsCompleteIcs(req.m, req.ics)
        /\ IsConstantRhs(req.G)) =>
        \A k \in 0..req.order :
            CoeffAbout(ret.items[1], req.x0, k) =
                IF k < req.m THEN Norm(IcsValue(req.ics, k), Factorial(k))
                ELSE IF k = req.m THEN Norm(ConstantOf(req.G), Factorial(req.m))
                ELSE RZero

\* A call of series_nth_order for y''' = x + y.
IsThirdOrderCoupling(r) ==
    /\ r.shape = "nth" /\ r.m = 3
    /\ r.G = <<Term(1, 1, 0, 0, 0), Term(1, 0, 1, 0, 0)>>
    /\ IsCompleteIcs(r.m, r.ics)

\* C15: for y''' = x + y the recurrence sets a_{n+3} = c_n * n!/(n+3)! at
\* every step n, and with y(0) = 1, y'(0) = 0, y''(0) = 0 about 0 at order 5
\* (steps n = 0, 1, 2) the call returns 1 + x^3/6 + x^4/24, the coefficients
\* of x, x^2 and x^5 being 0.
C15_ThirdOrderCoupling ==
    (IsThirdOrderCoupling(req) /\ pc \in {"loop", "returned"}) =>
        /\ \A j \in 0..(n - 1) :
             a[j + 4] = RMul(NthCoeff(3, req.G, req.x0, a, j, req.order),
                             Norm(Factorial(j), Factorial(j + 3)))
        /\ (pc = "returned" /\ req.order = 5 /\ req.x0 = 0
              /\ req.ics = <<<<0, 1>>, <<1, 0>>, <<2, 0>>>>) =>
             /\ n = 3
             /\ ret = Expr(<<ROne, RZero, RZero, <<1, 6>>, <<1, 24>>>>)

\* C15 witness: the order 5 call of build_cases has returned after the
\* steps n = 0, 1, 2.
C15_Witness ==
    /\ IsThirdOrderCoupling(req) /\ pc = "returned"
    /\ req.order = 5 /\ req.x0 = 0
    /\ req.ics = <<<<0, 1>>, <<1, 0>>, <<2, 0>>>>
    /\ n = 3

\* A call of series_first_order for y' = c*y.
IsLinearHomogeneous(r) ==
    /\ r.shape = "first"
    /\ Len(r.F) = 1 /\ r.F[1].px = 0 /\ r.F[1].pu = <<1, 0, 0>>

\* C16: for y' = c*y, y(x0) = y0 the first-order solver sets a_0 = y0 and
\* a_{n+1} = c_n/(n+1), and returns a_k = y0 * c^k / k! for 0 <= k <= N about
\* any x0; y' = y, y(0) = 1, order 6 gives 1 + x + ... + x^6/720 and y' = 2y,
\* y(0) = 3, order 4 gives 3 + 6x + 6x^2 + 4x^3 + 2x^4.
C16_LinearHomogeneous ==
    (IsLinearHomogeneous(req) /\ pc \in {"loop", "returned"}) =>
        /\ a[1] = RInt(req.v0)
        /\ \A j \in 0..(n - 1) :
             a[j + 2] = RDivInt(FirstCoeff(req.F, req.x0, a, j), j + 1)
        /\ pc = "returned" =>
             /\ \A k \in 0..req.order :
                  CoeffAbout(ret.items[1], req.x0, k) =
                      Norm(req.v0 * Pow(req.F[1].c, k), Factorial(k))
             /\ (req.F[1].c = 1 /\ req.v0 = 1 /\ req.order = 6 /\ req.x0 = 0) =>
                  ret = Expr(<<ROne, ROne, <<1, 2>>, <<1, 6>>, <<1, 24>>,
                               <<1, 120>>, <<1, 720>>>>)
             /\ (req.F[1].c = 2 /\ req.v0 = 3 /\ req.order = 4 /\ req.x0 = 0) =>
                  ret = Expr(<<RInt(3), RInt(6), RInt(6), RInt(4), RInt(2)>>)

\* C16 witness: y' = 2y with y0 # 0 about x0 # 0 has returned after at
\* least three steps.
C16_Witness ==
    /\ IsLinearHomogeneous(req) /\ pc = "returned"
    /\ req.F[1].c = 2 /\ req.v0 # 0 /\ req.x0 # 0
    /\ n >= 3

\* A call of series_first_order for y' = p(x), p a polynomial in x only.
IsPureSource(r) ==
    /\ r.shape = "first"
    /\ \A i \in 1..Len(r.F) : r.F[i].pu = <<0, 0, 0>>

\* p(x0 + t) as a polynomial in t.
SourceAbout(F, x0) == SubsExpand(F, x0, <<<<>>, <<>>, <<>>>>)

\* C17: for y' = p(x), y(x0) = y0 the first-order solver returns the
\* polynomial in (x - x0) with a_0 = y0 and a_{n+1} = [t^n of p(x0 + t)]/(n+1)
\* for 0 <= n < N and nothing of degree > N; y' = x^2, y(0) = 0, order 5 gives
\* x^3/3; y' = x^2, y(1) = 2, order 4 gives 2 + (x-1) + (x-1)^2 + (x-1)^3/3;
\* y' = 3x, y(0) = 2, order 1 gives 2.
C17_PureSource ==
    (IsPureSource(req) /\ pc = "returned") =>
        /\ CoeffAbout(ret.items[1], req.x0, 0) = RInt(req.v0)
        /\ \A j \in 0..(req.order - 1) :
             CoeffAbout(ret.items[1], req.x0, j + 1) =
                 RDivInt(Coeff(SourceAbout(req.F, req.x0), j), j + 1)
        /\ Len(AboutPoint(ret.items[1], req.x0)) <= req.order + 1
        /\ (req.F = <<Term(1, 2, 0, 0, 0)>> /\ req.v0 = 0 /\ req.x0 = 0 /\ req.order = 5) =>
             ret = Expr(<<RZero, RZero, RZero, <<1, 3>>>>)
        /\ (req.F = <<Term(1, 2, 0, 0, 0)>> /\ req.v0 = 2 /\ req.x0 = 1 /\ req.order = 4) =>
             AboutPoint(ret.items[1], 1) = <<RInt(2), ROne, ROne, <<1, 3>>>>
        /\ (req.F = <<Term(3, 1, 0, 0, 0)>> /\ req.v0 = 2 /\ req.x0 = 0 /\ req.order = 1) =>
             ret = Expr(<<RInt(2)>>)

\* C17 witness: y' = x^2 about x0 = 1 has returned at an order that keeps
\* the (x-1)^3 term.
C17_Witness ==
    /\ IsPureSource(req) /\ pc = "returned"
    /\ req.F = <<Term(1, 2, 0, 0, 0)>> /\ req.x0 = 1
    /\ req.order >= 3
    /\ CoeffAbout(ret.items[1], req.x0, 3) = <<1, 3>>

\* A call series_nth_order(1, G, {0: y0}, N, x0) with N >= 0.
IsOrderOne(r) ==
    /\ r.shape = "nth" /\ r.m = 1
    /\ IsCompleteIcs(1, r.ics)
    /\ r.order >= 0

\* The list of series_first_order(G, y0, N, x0) after its first k passes.
FirstListAfter(r, k) ==
    FirstLoop(r.G, r.x0, k, FirstAlloc(IcsValue(r.ics, 0), r.order).a, 0)

\* C18: series_nth_order(1, G, {0: y0}, N, x0) makes the same coefficient
\* updates, in the same order, as series_first_order(G, y0, N, x0) (after n
\* passes the entries 0..n of the two lists are equal, and the loops make the
\* same number of passes) and returns the same series.
C18_OrderOneReduction ==
    (IsOrderOne(req) /\ pc \in {"loop", "returned"}) =>
        /\ n <= req.order
        /\ \A k \in 0..n : a[k + 1] = FirstListAfter(req, n)[k + 1]
        /\ pc = "returned" =>
             /\ n = req.order
             /\ ret = series_first_order(req.G, IcsValue(req.ics, 0), req.order, req.x0)

\* C18 witness: an m = 1 call for y' = x + y with y0 # 0 about x0 # 0 has
\* returned after at least three passes.
C18_Witness ==
    /\ IsOrderOne(req) /\ pc = "returned"
    /\ req.G = <<Term(1, 1, 0, 0, 0), Term(1, 0, 1, 0, 0)>>
    /\ IcsValue(req.ics, 0) # 0 /\ req.x0 # 0
    /\ n >= 3

\* The list a call's solver holds after k passes when it runs alone.
AloneAfter(r, k) ==
    IF r.shape = "first" THEN <<FirstLoop(r.F, r.x0, k, FirstAlloc(r.v0, r.order).a, 0)>>
    ELSE IF r.shape = "nth" THEN <<NthLoop(r.m, r.G, r.x0, k + r.m - 1, NthAlloc(r.ics, r.order).a, 0)>>
    ELSE SysLoop(r.F, r.G, r.x0, k, FirstAlloc(r.v0, r.order).a, FirstAlloc(r.w0, r.order).a, 0)

\* C19: two solve calls whose steps are interleaved in any order, without
\* synchronization, each return exactly what the call returns alone (and
\* raise where it raises alone): the lists of a call are its own objects, no
\* list is referred to by both frames, and after every pass a call's lists
\* hold what they hold at that pass when the call runs alone.
C19_IndependentSolves ==
    \A i \in DOMAIN calls :
        LET c == calls[i]
        IN  /\ c.pc = "returned" => c.ret = Solve(c.req)
            /\ c.pc = "raised" => (c.ret = Raised /\ Solve(c.req) = Raised)
            /\ \A j \in DOMAIN calls \ {i} :
                 {c.refs[k] : k \in 1..Len(c.refs)}
                     \cap {calls[j].refs[k] : k \in 1..Len(calls[j].refs)} = {}
            /\ c.pc = "loop" =>
                 \A k \in 1..Len(c.refs) : heap[c.refs[k]] = AloneAfter(c.req, c.n)[k]

\* C19 witness: a system call has returned after two passes while a first-
\* order call, started before it ended, is in the middle of its loop.
C19_Witness ==
    /\ DOMAIN calls = CallIds
    /\ calls[1].req.shape = "system" /\ calls[1].pc = "returned" /\ calls[1].n = 2
    /\ calls[2].req.shape = "first" /\ calls[2].pc = "loop" /\ calls[2].n = 1
    /\ calls[2].refs[1] < calls[1].refs[2]

\* The right-hand side mentions the derivative y^(k) (k = 0, 1, 2).
MentionsDerivative(G, k) == \E i \in 1..Len(G) : G[i].pu[k + 1] > 0

\* C20: at every recurrence step of the m-th order solver the substitution
\* replaces every derivative symbol y^(k), 1 <= k <= m-1, that G mentions by
\* the k-th t-derivative of the partial series Y, so that c_n is extracted
\* from an expression in which every derivative has its series in place.
C20_CompleteSubstitution ==
    (req.shape = "nth" /\ WellFormed(req) /\ pc = "loop" /\ n < LoopBound(req)) =>
        LET Y == Y_upto(a, n + req.m - 1, req.order)
        IN  \A k \in 1..Min(req.m - 1, 2) :
                MentionsDerivative(req.G, k) => NthSubsMap(req.m, Y)[k + 1] = PDiff(Y, k)

\* A list with only its entries of degree 0..k kept: the others are None.
KeepUpTo(lst, k) == Tup([i \in 1..Len(lst) |-> IF i <= k + 1 THEN lst[i] ELSE PyNone])

\* C21: at every step n of the 2x2 solver af_{n+1} and ag_{n+1} are computed
\* from af_0..af_n and ag_0..ag_n as they stood before the step: every read of
\* a pass is of a degree <= n, every read of the pass comes before both of its
\* writes (so af_{n+1} is not read for ag_{n+1}), the pass writes af_{n+1} then
\* ag_{n+1}, and the two values are those the right-hand sides give on the
\* degree <= n entries of the lists before the step.
C21_NoCircularDependency ==
    /\ [](req.shape = "system" =>
            /\ \A i \in 1..Len(log) :
                 log[i].phase = "step" =>
                    /\ log[i].op = "read" => log[i].deg <= log[i].n
                    /\ log[i].op = "write" => log[i].deg = log[i].n + 1
            /\ \A i \in 1..Len(log) : \A j \in (i + 1)..Len(log) :
                 (log[i].phase = "step" /\ log[j].phase = "step"
                    /\ log[i].n = log[j].n /\ log[i].op = "write") => log[j].op = "write")
    /\ [][(req.shape = "system" /\ n' = n + 1) =>
            /\ af'[n + 2] = RDivInt(SysCoeff(req.F, req.x0, KeepUpTo(af, n), KeepUpTo(ag, n), n), n + 1)
            /\ ag'[n + 2] = RDivInt(SysCoeff(req.G, req.x0, KeepUpTo(af, n), KeepUpTo(ag, n), n), n + 1)]_vars

\* C21 witness: a system whose right-hand sides couple f and g (f' = f*g,
\* g' = -f) has made three passes, each writing af then ag.
C21_Witness ==
    /\ req.shape = "system" /\ pc = "loop" /\ n = 3
    /\ req.F = <<Term(1, 0, 1, 1, 0)>>
    /\ req.v0 # 0 /\ req.w0 # 0
    /\ log[Len(log)] = Ev("step", 2, "write", "ag", 3)
    /\ log[Len(log) - 1] = Ev("step", 2, "write", "af", 3)

\* The highest degree known at the start of step n: n, and n + m - 1 for the
\* m-th order solver.
KnownAt(r, k) == IF r.shape = "nth" THEN k + r.m - 1 ELSE k

\* The lists a solver builds.
ListsOf(r) == IF r.shape = "system" THEN {"af", "ag"} ELSE {"a"}

\* The degrees written so far to one list.
WrittenTo(lst) == {log[i].deg : i \in {j \in 1..Len(log) : log[j].op = "write" /\ log[j].lst = lst}}

\* An entry that has not been assigned: None, or the placeholder 0 of the
\* m-th order solver's list.
Unassigned(r, v) == IF r.shape = "nth" THEN v = RZero ELSE v = PyNone

\* The list of the state that the log calls lst.
ListNamed(lst) == IF lst = "af" THEN af ELSE IF lst = "ag" THEN ag ELSE a

\* C22: in every recurrence solver, on a request with complete initial data,
\* at the start of step n exactly the coefficients of degree 0..n (0..n+m-1
\* for the m-th order solver) are assigned and no higher one is assigned or
\* read; each pass writes exactly the next degree, so every list is written
\* in strictly increasing degree and no entry twice; the initial coefficients
\* keep the supplied values; and on return all N+1 coefficients are assigned.
C22_MonotoneBuild ==
    (WellFormed(req) /\ pc \in {"loop", "returned"}) =>
        /\ \A lst \in ListsOf(req) :
             /\ WrittenTo(lst) = 0..KnownAt(req, n)
             /\ \A k \in 0..req.order :
                  k > KnownAt(req, n) => Unassigned(req, ListNamed(lst)[k + 1])
             /\ req.shape # "nth" =>
                  \A k \in 0..KnownAt(req, n) : ListNamed(lst)[k + 1] # PyNone
        /\ \A i \in 1..Len(log) :
             /\ (log[i].phase = "step" /\ log[i].op = "read") =>
                    log[i].deg <= KnownAt(req, log[i].n)
             /\ (log[i].phase = "step" /\ log[i].op = "write") =>
                    log[i].deg = KnownAt(req, log[i].n) + 1
             /\ \A j \in (i + 1)..Len(log) :
                    (log[i].op = "write" /\ log[j].op = "write" /\ log[i].lst = log[j].lst)
                        => log[i].deg < log[j].deg
        /\ req.shape = "first" => a[1] = RInt(req.v0)
        /\ req.shape = "system" => (af[1] = RInt(req.v0) /\ ag[1] = RInt(req.w0))
        /\ req.shape = "nth" =>
             \A k \in 0..(req.m - 1) : a[k + 1] = RInt(IcsValue(req.ics, k))
        /\ pc = "returned" => KnownAt(req, n) = req.order

\* C22 witness: a third-order call with nonzero initial values has returned
\* after two passes, its last write being a_4.
C22_Witness ==
    /\ pc = "returned" /\ req.shape = "nth" /\ WellFormed(req)
    /\ req.m = 3 /\ req.order = 4 /\ n = 2
    /\ IcsValue(req.ics, 2) # 0
    /\ log[Len(log)] = Ev("step", 1, "write", "a", 4)

\* ------------------------------------------------------------------------
\* C23: a solve leaves its inputs alone and its result depends on them only
\* ------------------------------------------------------------------------

\* The arguments of a solve: right-hand sides, initial values, ics mapping,
\* expansion point and order.
InputsOf(r) ==
    <<r.F, r.G, r.ics, r.v0, r.w0, r.x0, r.order>>

MaxCases == 2

\* An expected series as build_cases writes it: a sum of terms
\* c * (x - s)^k, powers of x - s left unexpanded ((x - 2)**3, t**2 with
\* t = x - 1); the empty sum is the expected value 0.
ETerm(num, den, s, k) == [c |-> <<num, den>>, s |-> s, k |-> k]

\* expected=None of a ScalarCase, expected_f=None of a SystemCase.
NoExpected == [tag |-> "None", terms |-> <<>>]

\* An expected series that is given.
Sum(terms) == [tag |-> "sum", terms |-> terms]

\* sp.expand of such a sum: its coefficients in powers of x.
RECURSIVE ExpandFrom(_, _)
ExpandFrom(e, j) ==
    IF j > Len(e) THEN <<>>
    ELSE PAdd(PScale(e[j].c, PPow(<<RInt(-e[j].s), ROne>>, e[j].k)),
              ExpandFrom(e, j + 1))

ExpandExpr(e) == Strip(ExpandFrom(e, 1))

\* The expression tree of an expanded polynomial: one term per nonzero
\* coefficient, by increasing power.
RECURSIVE TreeFrom(_, _)
TreeFrom(p, k) ==
    IF k > Len(p) THEN <<>>
    ELSE (IF p[k] = RZero THEN <<>> ELSE <<ETerm(p[k][1], p[k][2], 0, k - 1)>>)
         \o TreeFrom(p, k + 1)

\* got == expect on the expression trees, nothing expanded.
compare_polys_Syntactic(gotp, expect) ==
    [ok |-> TreeFrom(gotp, 1) = expect.terms,
     diff |-> Strip(PAdd(gotp, PScale(RInt(-1), ExpandExpr(expect.terms))))]

\* diff = simplify(expand(got - expect)); return (diff == 0), diff
compare_polys(gotp, expect) ==
    LET diff == Strip(PAdd(gotp, PScale(RInt(-1), ExpandExpr(expect.terms))))
    IN  [ok |-> diff = <<>>, diff |-> diff]

\* A ScalarCase (expected in ef) or a SystemCase (expected_f, expected_g).
CaseOf(label, r, ef, eg) == [label |-> label, req |-> r, ef |-> ef, eg |-> eg]

\* Cases of build_cases: "Order 1", "Nonzero point y'=x^2 at x=1",
\* "Constant third derivative at x=2 (y'''=6)", "Simple oscillator f/g",
\* "Exp system f/g" (whose expected x^5 coefficient is 1/15); and three
\* records of the same classes: a scalar case whose expectation is off, a
\* scalar case with expected=None, a nth case without m, G and ics_nth.
CasePool ==
    { CaseOf("Order 1",
             Request("case", "first", 1, <<Term(3, 1, 0, 0, 0)>>, <<>>, <<>>, 2, 0, 1, 0, TRUE),
             Sum(<<ETerm(2, 1, 0, 0)>>), NoExpected),
      CaseOf("Nonzero point y'=x^2 at x=1",
             Request("case", "first", 1, <<Term(1, 2, 0, 0, 0)>>, <<>>, <<>>, 2, 0, 4, 1, TRUE),
             Sum(<<ETerm(2, 1, 1, 0), ETerm(1, 1, 1, 1), ETerm(1, 1, 1, 2), ETerm(1, 3, 1, 3)>>),
             NoExpected),
      CaseOf("Constant third derivative at x=2",
             Request("case", "nth", 3, <<>>, <<Term(6, 0, 0, 0, 0)>>,
                     <<<<0, 0>>, <<1, 0>>, <<2, 0>>>>, 0, 0, 4, 2, TRUE),
             Sum(<<ETerm(1, 1, 2, 3)>>), NoExpected),
      CaseOf("Off by one coefficient",
             Request("case", "first", 1, <<Term(2, 0, 1, 0, 0)>>, <<>>, <<>>, 3, 0, 3, 0, TRUE),
             Sum(<<ETerm(3, 1, 0, 0), ETerm(6, 1, 0, 1), ETerm(6, 1, 0, 2), ETerm(5, 1, 0, 3)>>),
             NoExpected),
      CaseOf("No expectation",
             Request("case", "nth", 2, <<>>, <<Term(-1, 0, 1, 0, 0)>>,
                     <<<<0, 1>>, <<1, 0>>>>, 0, 0, 3, 0, TRUE),
             NoExpected, NoExpected),
      CaseOf("Malformed",
             Request("case", "nth", 1, <<>>, <<>>, <<>>, 0, 0, 2, 0, FALSE),
             NoExpected, NoExpected),
      CaseOf("Simple oscillator f/g",
             Request("case", "system", 1, <<Term(1, 0, 0, 1, 0)>>, <<Term(-1, 0, 1, 0, 0)>>,
                     <<>>, 0, 1, 5, 0, TRUE),
             Sum(<<ETerm(1, 1, 0, 1), ETerm(-1, 6, 0, 3), ETerm(1, 120, 0, 5)>>),
             Sum(<<ETerm(1, 1, 0, 0), ETerm(-1, 2, 0, 2), ETerm(1, 24, 0, 4)>>)),
      CaseOf("Exp system f/g",
             Request("case", "system", 1, <<Term(1, 0, 1, 0, 0), Term(1, 0, 0, 1, 0)>>,
                     <<Term(1, 0, 1, 0, 0), Term(1, 0, 0, 1, 0)>>, <<>>, 1, 0, 5, 0, TRUE),
             Sum(<<ETerm(1, 1, 0, 0), ETerm(1, 1, 0, 1), ETerm(1, 1, 0, 2), ETerm(2, 3, 0, 3),
               ETerm(1, 3, 0, 4), ETerm(1, 15, 0, 5)>>),
             Sum(<<ETerm(1, 1, 0, 1), ETerm(1, 1, 0, 2), ETerm(2, 3, 0, 3),
               ETerm(1, 3, 0, 4), ETerm(1, 15, 0, 5)>>)),
      CaseOf("Only g expected",
             Request("case", "system", 1, <<Term(1, 0, 0, 1, 0)>>, <<Term(-1, 0, 1, 0, 0)>>,
                     <<>>, 0, 1, 2, 0, TRUE),
             NoExpected,
             Sum(<<ETerm(1, 1, 0, 0), ETerm(-1, 2, 0, 2)>>)) }

\* scalar_cases + system_cases as main walks them: the scalar cases first.
CaseLists ==
    { cs \in UNION {[1..k -> CasePool] : k \in 1..MaxCases} :
        \A i \in 1..Len(cs), j \in 1..Len(cs) :
            (i < j /\ cs[i].req.shape = "system") => cs[j].req.shape = "system" }

\* main calls build_cases and sets failures = [].
InitMain ==
    /\ main \in {[cases |-> cs, i |-> 0, tags |-> <<>>, failures |-> <<>>,
                  result |-> "", listed |-> <<>>] : cs \in CaseLists}
    /\ req = NoRequest
    /\ pc = "main"
    /\ solver = ""
    /\ trace = <<>>
    /\ InitLocals
    /\ NoPair

\* for c in scalar_cases / for sc in system_cases: the next case is handed
\* to its runner, whose locals are fresh.
MainNextCase ==
    /\ pc = "main"
    /\ main.i < Len(main.cases)
    /\ main' = [main EXCEPT !.i = main.i + 1]
    /\ req' = main.cases[main.i + 1].req
    /\ pc' = "run"
    /\ solver' = ""
    /\ trace' = <<>>
    /\ a' = <<>> /\ af' = <<>> /\ ag' = <<>> /\ n' = 0
    /\ ret' = Pending /\ exact' = Pending /\ got' = Pending
    /\ log' = <<>>
    /\ UNCHANGED <<calls, heap>>

\* The case main is at.
CurrentCase == main.cases[main.i]

\* ok of run_scalar_case: True without an expectation, else compare_polys'
\* verdict on got.
ScalarOk(c, g) ==
    IF c.ef = NoExpected THEN TRUE ELSE compare_polys(g.items[1], c.ef).ok

\* ok_f and ok_g of run_system_case on got_f, got_g.
SystemOk(c, g) ==
    /\ (IF c.ef = NoExpected THEN TRUE ELSE compare_polys(g.items[1], c.ef).ok)
    /\ (IF c.eg = NoExpected THEN TRUE ELSE compare_polys(g.items[2], c.eg).ok)

\* got - c.expected of a list raises TypeError.
ComparisonRaises(c, g) ==
    c.req.shape # "system" /\ c.ef # NoExpected /\ g.tag # "expr"

\* The runner returns ok and main prints [PASS] or [FAIL] with the label,
\* appending the label to failures when not ok.
MainVerdict ==
    /\ pc = "done"
    /\ main.i >= 1
    /\ IF ComparisonRaises(CurrentCase, got)
       THEN /\ pc' = "raised"
            /\ UNCHANGED main
       ELSE LET ok == IF req.shape = "system" THEN SystemOk(CurrentCase, got)
                      ELSE ScalarOk(CurrentCase, got)
                tag == [label |-> CurrentCase.label,
                        tag |-> IF ok THEN "PASS" ELSE "FAIL"]
            IN  /\ pc' = "main"
                /\ main' = [main EXCEPT
                              !.tags = Append(main.tags, tag),
                              !.failures = IF ok THEN main.failures
                                           ELSE Append(main.failures, CurrentCase.label)]
    /\ UNCHANGED <<log, calls, heap, req, solver, a, af, ag, n, ret, exact, got, trace>>

\* After the loops: the overall result, and the offending cases by name.
MainReport ==
    /\ pc = "main"
    /\ main.i = Len(main.cases)
    /\ pc' = "exit"
    /\ main' = [main EXCEPT
                  !.result = IF main.failures # <<>>
                             THEN "SOME TEST ASSUMPTIONS DISAGREE WITH SYMPY"
                             ELSE "ALL EXPECTATIONS MATCH SYMPY",
                  !.listed = main.failures]
    /\ UNCHANGED <<log, calls, heap, req, solver, a, af, ag, n, ret, exact, got, trace>>

NextMain ==
    \/ MainNextCase
    \/ RunCase
    \/ SeriesFromExact
    \/ Fallback
    \/ HandToComparison
    \/ NextSolver
    \/ MainVerdict
    \/ MainReport

\* main from its start to its report, or to the exception that ends it.
SpecMain == InitMain /\ [][NextMain]_vars

\* ------------------------------------------------------------------------
\* C24: the verdicts of the runners and main's report
\* ------------------------------------------------------------------------

\* The two series have the same coefficient at every power of x.
SameSeries(gotp, expect) ==
    LET e == ExpandExpr(expect.terms)
    IN  \A k \in 0..Max(Len(gotp), Len(e)) : Coeff(gotp, k) = Coeff(e, k)

\* A comparison that is skipped or finds the same series.
Agrees(g, j, expect) ==
    expect = NoExpected \/ (Len(g.items) >= j /\ SameSeries(g.items[j], expect))

\* The labels of the cases tagged FAIL so far, in the order of the tags.
RECURSIVE FailedFrom(_, _)
FailedFrom(tags, j) ==
    IF j > Len(tags) THEN <<>>
    ELSE (IF tags[j].tag = "FAIL" THEN <<tags[j].label>> ELSE <<>>)
         \o FailedFrom(tags, j + 1)

\* C24: a scalar case is tagged PASS iff it has no expected series or the
\* obtained and the expected series agree coefficient by coefficient, however
\* the expected series is written; a system case is tagged PASS iff that
\* holds for f and for g; a comparison that cannot be made (a list obtained
\* for a scalar case with an expectation) ends the run without a tag; and
\* main, once through all cases, reports that all expectations match iff no
\* case was tagged FAIL, and otherwise lists exactly the labels of the cases
\* tagged FAIL, in order.
C24_VerdictAndReport ==
    /\ [][Len(main'.tags) = Len(main.tags) + 1 =>
            LET c == CurrentCase
                t == main'.tags[Len(main'.tags)]
            IN  /\ pc = "done" /\ Len(main.tags) = main.i - 1
                /\ t.label = c.label
                /\ t.tag \in {"PASS", "FAIL"}
                /\ c.req.shape # "system" =>
                     (t.tag = "PASS" <=>
                        (c.ef = NoExpected \/ (got.tag = "expr" /\ Agrees(got, 1, c.ef))))
                /\ c.req.shape = "system" =>
                     (t.tag = "PASS" <=> (Agrees(got, 1, c.ef) /\ Agrees(got, 2, c.eg)))]_vars
    /\ [][(pc = "done" /\ pc' = "raised") =>
            /\ main' = main
            /\ CurrentCase.req.shape # "system"
            /\ CurrentCase.ef # NoExpected
            /\ got.tag # "expr"]_vars
    /\ [](/\ Len(main.tags) <= main.i
          /\ \A j \in 1..Len(main.tags) : main.tags[j].label = main.cases[j].label
          /\ main.failures = FailedFrom(main.tags, 1))
    /\ [](pc = "exit" =>
            /\ Len(main.tags) = Len(main.cases)
            /\ main.result \in {"ALL EXPECTATIONS MATCH SYMPY",
                                "SOME TEST ASSUMPTIONS DISAGREE WITH SYMPY"}
            /\ (main.result = "ALL EXPECTATIONS MATCH SYMPY" <=>
                  \A j \in 1..Len(main.tags) : main.tags[j].tag = "PASS")
            /\ main.listed = FailedFrom(main.tags, 1))
    /\ [](pc # "exit" => (main.result = "" /\ main.listed = <<>>))

\* main at its report after two cases: the first, whose expected series is
\* written in powers of x - 1 and so is not the expanded tree of the series
\* obtained, passed; the second failed and is the one label listed.
C24_Witness ==
    /\ pc = "exit" /\ Len(main.cases) = 2
    /\ main.cases[1].ef # NoExpected
    /\ TreeFrom(ExpandExpr(main.cases[1].ef.terms), 1) # main.cases[1].ef.terms
    /\ main.tags[1].tag = "PASS"
    /\ main.tags[2].tag = "FAIL"
    /\ main.result = "SOME TEST ASSUMPTIONS DISAGREE WITH SYMPY"
    /\ main.listed = <<main.cases[2].label>>

====
